---- MODULE Spec2Model ----
(***************************************************************************)
(* Model of cwh (src/main.rs): a read-evaluate-print loop for prefix       *)
(* arithmetic.  A token is a sequence of one-character strings, a line is  *)
(* the sequence of its whitespace-separated tokens.  isize/usize keep a    *)
(* width of IntBits bits.                                                  *)
(***************************************************************************)
EXTENDS Integers, Sequences, FiniteSets, TLC

VARIABLES
    overflowChecks, \* build profile: TRUE = overflow panics, FALSE = wraps
    history,        \* main: Vec<isize> of results
    stdout,         \* what main printed: prompts and results
    stderr,         \* what main wrote to the error stream
    log,            \* the lines main processed, each with its outcome
    crashed,        \* the process panicked
    pc,             \* position of the session loop / of the single call
    line,           \* argument of the process_line call under study
    variables,      \* history argument of the process_line call under study
    call            \* what that call did: parse result, leftover, outcome

vars == <<overflowChecks, history, stdout, stderr, log, crashed, pc, line,
          variables, call>>

-----------------------------------------------------------------------------
(* Bounds *)

IntBits == 8        \* width of isize and usize in the model
MaxLen == 3         \* longest enumerated line, in tokens
MaxLines == 3       \* lines a session reads

-----------------------------------------------------------------------------
(* Machine integers *)

RECURSIVE Pow2(_)
Pow2(n) == IF n = 0 THEN 1 ELSE 2 * Pow2(n - 1)

MinInt == -Pow2(IntBits - 1)
MaxInt == Pow2(IntBits - 1) - 1
MaxUsize == Pow2(IntBits) - 1

InIsize(x) == MinInt <= x /\ x <= MaxInt

\* two's complement wrap of a mathematical integer into isize
WrapIsize(x) == ((x - MinInt) % Pow2(IntBits)) + MinInt

\* usize as isize
CastIsize(u) == IF u > MaxInt THEN u - Pow2(IntBits) ELSE u

Abs(x) == IF x < 0 THEN -x ELSE x

-----------------------------------------------------------------------------
(* Results *)

NoTok == <<>>

Ok(v) == [kind |-> "Ok", val |-> v]
Err(tag, tok) == [kind |-> "Err", val |-> [err |-> tag, tok |-> tok]]
Panic == [kind |-> "Panic", val |-> "overflow"]

IsOk(r) == r.kind = "Ok"
IsErr(r) == r.kind = "Err"
IsPanic(r) == r.kind = "Panic"

-----------------------------------------------------------------------------
(* Characters and decimal text *)

Digits == <<"0", "1", "2", "3", "4", "5", "6", "7", "8", "9">>

IsDigit(c) == \E d \in 1..10 : Digits[d] = c
DigitVal(c) == (CHOOSE d \in 1..10 : Digits[d] = c) - 1

\* Display of an unsigned / signed integer ("{}")
RECURSIVE FmtNat(_)
FmtNat(n) == IF n < 10 THEN <<Digits[n + 1]>>
             ELSE FmtNat(n \div 10) \o <<Digits[(n % 10) + 1]>>

Fmt(n) == IF n < 0 THEN <<"-">> \o FmtNat(-n) ELSE FmtNat(n)

\* str::parse::<isize>() / str::parse::<usize>(): optional sign ('-' only for
\* the signed type), then digits, accumulated with overflow checks.
RECURSIVE Accumulate(_, _, _, _, _, _)
Accumulate(ds, i, acc, neg, lo, hi) ==
    IF i > Len(ds) THEN [ok |-> TRUE, val |-> acc]
    ELSE IF ~IsDigit(ds[i]) THEN [ok |-> FALSE, val |-> 0]
    ELSE LET d == DigitVal(ds[i])
             nxt == IF neg THEN acc * 10 - d ELSE acc * 10 + d
         IN  IF nxt < lo \/ nxt > hi THEN [ok |-> FALSE, val |-> 0]
             ELSE Accumulate(ds, i + 1, nxt, neg, lo, hi)

FromStr(s, signed, lo, hi) ==
    IF s = <<>> THEN [ok |-> FALSE, val |-> 0]
    ELSE IF Len(s) = 1 /\ s[1] \in {"+", "-"} THEN [ok |-> FALSE, val |-> 0]
    ELSE LET neg == signed /\ s[1] = "-"
             ds == IF s[1] = "+" \/ neg THEN Tail(s) ELSE s
         IN  Accumulate(ds, 1, 0, neg, lo, hi)

ParseIsize_sign(s) ==
    IF s = <<"-">> \/ s = <<"+">> THEN [ok |-> TRUE, val |-> 0]
    ELSE FromStr(s, TRUE, MinInt, MaxInt)

ParseIsize(s) == FromStr(s, TRUE, MinInt, MaxInt)

ParseUsize(s) == FromStr(s, FALSE, 0, MaxUsize)

-----------------------------------------------------------------------------
(* Operators *)

BinaryOperator_from_str(s) ==
    IF s = <<"/">> THEN "Division"
    ELSE IF s = <<"-">> THEN "Minus"
    ELSE IF s = <<"*">> THEN "Multiplication"
    ELSE IF s = <<"+">> THEN "Plus"
    ELSE "none"

UnaryOperator_from_str(s) ==
    IF s = <<"a", "b", "s">> THEN "Abs"
    ELSE IF s = <<"f", "a", "c", "t">> \/ s = <<"!">> THEN "Factorial"
    ELSE IF s = <<"n", "e", "g">> THEN "Negative"
    ELSE IF s = <<"p", "r", "e", "d">> THEN "Predecessor"
    ELSE IF s = <<"s", "g", "n">> THEN "Signum"
    ELSE IF s = <<"s", "u", "c", "c">> THEN "Successor"
    ELSE "none"

-----------------------------------------------------------------------------
(* Value: the expression tree *)

IntLit(n) == [type |-> "Int", int |-> n]
Variable(i) == [type |-> "Variable", idx |-> i]
UnaryOperation(op, a) == [type |-> "UnaryOperation", operator |-> op, arg |-> a]
BinaryOperation(op, l, r) ==
    [type |-> "BinaryOperation", operator |-> op, left |-> l, right |-> r]

-----------------------------------------------------------------------------
(* parse_value: toks is the line, pos the number of tokens the iterator has *)
(* yielded so far.  Returns the result and the iterator's new position.     *)

ParseVariable(var) ==
    LET idx == ParseUsize(Tail(var))
    IN  IF idx.ok THEN Ok(Variable(idx.val)) ELSE Err("InvalidVariableName", var)

ParseBinary_propagate(op, l, r) ==
    IF IsOk(l) /\ IsOk(r)
    THEN Ok(BinaryOperation(BinaryOperator_from_str(op), l.val, r.val))
    ELSE IF IsErr(l) THEN l ELSE r

ParseBinary_swap(op, l, r) ==
    IF IsOk(l) /\ IsOk(r)
    THEN Ok(BinaryOperation(BinaryOperator_from_str(op), r.val, l.val))
    ELSE Err("BinaryArity", op)

ParseBinary(op, l, r) ==
    IF IsOk(l) /\ IsOk(r)
    THEN Ok(BinaryOperation(BinaryOperator_from_str(op), l.val, r.val))
    ELSE Err("BinaryArity", op)

ParseUnary(op, a) ==
    IF IsOk(a)
    THEN Ok(UnaryOperation(UnaryOperator_from_str(op), a.val))
    ELSE Err("UnaryArity", op)

RECURSIVE parse_value(_, _)
parse_value(toks, pos) ==
    IF pos >= Len(toks)
    THEN [res |-> Err("EndOfInput", NoTok), pos |-> pos]
    ELSE LET str == toks[pos + 1]
             nxt == pos + 1
         IN  IF Head(str) = "$"
             THEN [res |-> ParseVariable(str), pos |-> nxt]
             ELSE IF ParseIsize(str).ok
             THEN [res |-> Ok(IntLit(ParseIsize(str).val)), pos |-> nxt]
             ELSE IF BinaryOperator_from_str(str) # "none"
             THEN LET l == parse_value(toks, nxt)
                      r == parse_value(toks, l.pos)
                  IN  [res |-> ParseBinary(str, l.res, r.res), pos |-> r.pos]
             ELSE IF UnaryOperator_from_str(str) # "none"
             THEN LET a == parse_value(toks, nxt)
                  IN  [res |-> ParseUnary(str, a.res), pos |-> a.pos]
             ELSE [res |-> Err("UnexpectedInput", str), pos |-> nxt]

-----------------------------------------------------------------------------
(* evaluate_value *)

\* isize arithmetic whose mathematical result is x: in range it is x, out of
\* range it panics with overflow checks on and wraps with them off
CheckedIsize(x, oc) ==
    IF InIsize(x) THEN Ok(x) ELSE IF oc THEN Panic ELSE Ok(WrapIsize(x))

CheckedUsize(x, oc) ==
    IF x <= MaxUsize THEN Ok(x)
    ELSE IF oc THEN Panic ELSE Ok(x % Pow2(IntBits))

\* lhs / rhs of Rust: the quotient rounded toward zero
TruncDiv(lhs, rhs) ==
    IF (lhs >= 0) = (rhs > 0) THEN Abs(lhs) \div Abs(rhs)
    ELSE -(Abs(lhs) \div Abs(rhs))

\* factorial(n): the products n * factorial(n - 1) in the order the returns
\* of the recursion compute them, 1 * 1, 2 * 1, 3 * 2, ...; a wrapped product
\* of 0 stays 0
RECURSIVE FactorialFrom(_, _, _, _)
FactorialFrom(k, n, acc, oc) ==
    IF k > n \/ acc = 0 THEN Ok(acc)
    ELSE LET p == CheckedUsize(k * acc, oc)
         IN  IF IsPanic(p) THEN Panic ELSE FactorialFrom(k + 1, n, p.val, oc)

factorial(n, oc) == FactorialFrom(1, n, 1, oc)

ApplyBinary(operator, lhs, rhs, oc) ==
    CASE operator = "Division" ->
            IF rhs = 0 THEN Err("DivisionByZero", NoTok)
            ELSE IF lhs = MinInt /\ rhs = -1 THEN Panic
            ELSE Ok(TruncDiv(lhs, rhs))
      [] operator = "Minus" -> CheckedIsize(lhs - rhs, oc)
      [] operator = "Multiplication" -> CheckedIsize(lhs * rhs, oc)
      [] operator = "Plus" -> CheckedIsize(lhs + rhs, oc)

ApplyUnary(operator, int, oc) ==
    CASE operator = "Abs" -> CheckedIsize(Abs(int), oc)
      [] operator = "Negative" -> CheckedIsize(-int, oc)
      [] operator = "Factorial" ->
            IF int > 0
            THEN LET f == factorial(int, oc)
                 IN  IF IsPanic(f) THEN Panic ELSE Ok(CastIsize(f.val))
            ELSE Err("FactorialArgument", NoTok)
      [] operator = "Predecessor" -> CheckedIsize(int - 1, oc)
      [] operator = "Signum" -> Ok(IF int > 0 THEN 1 ELSE IF int < 0 THEN -1 ELSE 0)
      [] operator = "Successor" -> CheckedIsize(int + 1, oc)

VariableGet_clamp(vs, idx) ==
    IF idx < Len(vs) THEN Ok(vs[idx + 1])
    ELSE IF vs # <<>> THEN Ok(vs[Len(vs)])
    ELSE Err("InvalidVariableIndex", FmtNat(idx))

VariableGet(vs, idx) ==
    IF idx < Len(vs) THEN Ok(vs[idx + 1])
    ELSE Err("InvalidVariableIndex", FmtNat(idx))

RECURSIVE evaluate_value(_, _, _)
evaluate_value(value, vs, oc) ==
    CASE value.type = "BinaryOperation" ->
            LET l == evaluate_value(value.left, vs, oc)
            IN  IF IsPanic(l) THEN Panic
                ELSE LET r == evaluate_value(value.right, vs, oc)
                     IN  IF IsPanic(r) THEN Panic
                         ELSE IF IsOk(l) /\ IsOk(r)
                         THEN ApplyBinary(value.operator, l.val, r.val, oc)
                         ELSE IF IsErr(l) THEN l ELSE r
      [] value.type = "Int" -> Ok(value.int)
      [] value.type = "UnaryOperation" ->
            LET a == evaluate_value(value.arg, vs, oc)
            IN  IF IsOk(a) THEN ApplyUnary(value.operator, a.val, oc) ELSE a
      [] value.type = "Variable" -> VariableGet(vs, value.idx)

-----------------------------------------------------------------------------
(* process_line: what the call parsed, how many tokens the parse consumed, *)
(* whether evaluate_value was called, and the returned result              *)

NoResult == [kind |-> "None", val |-> "none"]

NoCall == [parsed |-> NoResult, consumed |-> 0, evaluated |-> FALSE,
           outcome |-> NoResult]

process_line_evalfirst(l, h, oc) ==
    LET p == parse_value(l, 0)
        e == IF IsOk(p.res) THEN evaluate_value(p.res.val, h, oc) ELSE p.res
    IN  [parsed |-> p.res, consumed |-> p.pos, evaluated |-> IsOk(p.res),
         outcome |-> IF IsOk(p.res) /\ IsOk(e) /\ p.pos < Len(l)
                     THEN Err("TrailingInput", l[p.pos + 1]) ELSE e]

process_line(l, h, oc) ==
    LET p == parse_value(l, 0)
    IN  IF IsOk(p.res)
        THEN IF p.pos >= Len(l)
             THEN [parsed |-> p.res, consumed |-> p.pos, evaluated |-> TRUE,
                   outcome |-> evaluate_value(p.res.val, h, oc)]
             ELSE [parsed |-> p.res, consumed |-> p.pos, evaluated |-> FALSE,
                   outcome |-> Err("TrailingInput", l[p.pos + 1])]
        ELSE [parsed |-> p.res, consumed |-> p.pos, evaluated |-> FALSE,
              outcome |-> p.res]

-----------------------------------------------------------------------------
(* Input tokens and lines *)

TokDiv == <<"/">>
TokMinus == <<"-">>
TokMul == <<"*">>
TokPlus == <<"+">>
TokAbs == <<"a", "b", "s">>
TokFact == <<"f", "a", "c", "t">>
TokBang == <<"!">>
TokNeg == <<"n", "e", "g">>
TokPred == <<"p", "r", "e", "d">>
TokSgn == <<"s", "g", "n">>
TokSucc == <<"s", "u", "c", "c">>
TokJunk == <<"!", "#">>
TokVarA == <<"$", "a">>
TokVarNeg == <<"$", "-", "1">>
TokPlusOne == <<"+", "1">>
VarTok(i) == <<"$">> \o FmtNat(i)

BinaryTokens == {TokDiv, TokMinus, TokMul, TokPlus}
UnaryTokens == {TokAbs, TokFact, TokBang, TokNeg, TokPred, TokSgn, TokSucc}

\* every token class of parse_value, with out-of-range and malformed tokens
ParseTokens ==
    BinaryTokens \cup UnaryTokens \cup
    {VarTok(0), TokVarA, TokVarNeg, Fmt(1), Fmt(-1), TokPlusOne,
     Fmt(MaxInt + 1), TokJunk}

\* well-formed tokens whose arithmetic reaches the edges of isize
EvalTokens ==
    BinaryTokens \cup (UnaryTokens \ {TokBang}) \cup
    {Fmt(MinInt), Fmt(-1), Fmt(0), Fmt(2), Fmt(6), Fmt(MaxInt),
     VarTok(0), VarTok(1)}

SeqsUpTo(S, n) == UNION {[1..k -> S] : k \in 0..n}

\* the lines of the specification's and the tests' examples, and lines with a
\* failing operand next to a panicking or a malformed one
ExampleLines ==
    {<<TokPlus, Fmt(3), Fmt(2)>>,
     <<TokPlus, Fmt(3), TokMul, Fmt(8), TokDiv, Fmt(2), Fmt(3)>>,
     <<TokMinus, VarTok(0), VarTok(1)>>,
     <<TokMul, TokPlus, Fmt(3), TokMinus, Fmt(2), Fmt(1), TokDiv, Fmt(16), Fmt(4)>>,
     <<TokFact, Fmt(4)>>, <<TokBang, Fmt(4)>>, <<TokBang, Fmt(0)>>,
     <<TokDiv, VarTok(9), Fmt(0)>>,
     <<TokDiv, VarTok(1), VarTok(0)>>,
     <<TokPlus, VarTok(9), TokDiv, Fmt(MinInt), Fmt(-1)>>,
     <<TokPlus, VarTok(9), TokNeg, Fmt(MinInt)>>,
     <<TokPlus, VarTok(8), VarTok(9)>>,
     <<TokPlus, TokMul, Fmt(1), TokJunk, Fmt(2)>>,
     <<TokNeg, TokMinus, TokAbs, TokJunk, Fmt(2)>>,
     <<TokDiv, Fmt(1), Fmt(0), Fmt(5)>>,
     <<TokDiv, VarTok(9), Fmt(1), TokJunk>>}

ParseLines == SeqsUpTo(ParseTokens, MaxLen)
EvalLines == SeqsUpTo(EvalTokens, MaxLen) \cup ExampleLines

Histories == {<<>>, <<5, 2>>, <<MinInt, -1>>}

\* the lines a session reads
SessionLines ==
    {<<TokPlus, Fmt(3), Fmt(2)>>,
     <<TokMul, Fmt(2), Fmt(5)>>,
     <<TokDiv, VarTok(1), VarTok(0)>>,
     <<VarTok(0)>>,
     <<TokDiv, VarTok(0), Fmt(0)>>,
     <<>>,
     <<TokJunk>>,
     <<Fmt(3), Fmt(2)>>,
     <<TokPlus, TokMul, Fmt(1)>>,
     <<TokDiv, Fmt(MinInt), Fmt(-1)>>,
     <<TokNeg, Fmt(MinInt)>>,
     <<TokSucc, Fmt(MaxInt)>>,
     <<TokPlus, Fmt(MaxInt), Fmt(1)>>,
     <<TokMul, Fmt(MaxInt), Fmt(2)>>,
     <<TokFact, Fmt(6)>>,
     <<TokPlus, TokDiv, Fmt(MinInt), Fmt(-1), VarTok(0)>>}

-----------------------------------------------------------------------------
(* main: the session loop *)

Prompt == <<"#", " ">>

Push_front(h, result) == <<result>> \o h

Push(h, result) == Append(h, result)

LogEntry(l, c, after) ==
    [line |-> l, before |-> history, outcome |-> c.outcome, after |-> after]

Init ==
    /\ overflowChecks \in BOOLEAN
    /\ history = <<>>
    /\ stdout = <<Prompt>>
    /\ stderr = <<>>
    /\ log = <<>>
    /\ crashed = FALSE
    /\ pc = "read"
    /\ line = <<>>
    /\ variables = <<>>
    /\ call = NoCall

Reading == pc = "read" /\ ~crashed /\ Len(log) < MaxLines

\* Ok(result): push, print, prompt
LineOk(l) ==
    /\ Reading
    /\ LET c == process_line(l, history, overflowChecks)
       IN  /\ IsOk(c.outcome)
           /\ history' = Push(history, c.outcome.val)
           /\ stdout' = stdout \o <<Fmt(c.outcome.val), Prompt>>
           /\ log' = Append(log, LogEntry(l, c, history'))
           /\ call' = c
    /\ line' = l
    /\ variables' = history
    /\ UNCHANGED <<overflowChecks, stderr, crashed, pc>>

\* Err(msg): report, prompt
LineErr(l) ==
    /\ Reading
    /\ LET c == process_line(l, history, overflowChecks)
       IN  /\ IsErr(c.outcome)
           /\ stderr' = Append(stderr, c.outcome.val)
           /\ log' = Append(log, LogEntry(l, c, history))
           /\ call' = c
    /\ stdout' = Append(stdout, Prompt)
    /\ line' = l
    /\ variables' = history
    /\ UNCHANGED <<overflowChecks, history, crashed, pc>>

\* process_line panicked: the process dies with the line unanswered
LinePanic(l) ==
    /\ Reading
    /\ LET c == process_line(l, history, overflowChecks)
       IN  /\ IsPanic(c.outcome)
           /\ log' = Append(log, LogEntry(l, c, history))
           /\ call' = c
    /\ crashed' = TRUE
    /\ pc' = "exit"
    /\ line' = l
    /\ variables' = history
    /\ UNCHANGED <<overflowChecks, history, stdout, stderr>>

\* stdin is exhausted
EndOfInput ==
    /\ pc = "read" /\ ~crashed
    /\ pc' = "exit"
    /\ UNCHANGED <<overflowChecks, history, stdout, stderr, log, crashed, line,
                   variables, call>>

Next ==
    \/ \E l \in SessionLines : LineOk(l)
    \/ \E l \in SessionLines : LineErr(l)
    \/ \E l \in SessionLines : LinePanic(l)
    \/ EndOfInput

Spec == Init /\ [][Next]_vars

-----------------------------------------------------------------------------
(* One call of process_line on an enumerated line and history *)

InitLine ==
    /\ \/ line \in ParseLines /\ variables = <<>> /\ overflowChecks = TRUE
       \/ line \in EvalLines /\ variables \in Histories
                             /\ overflowChecks \in BOOLEAN
    /\ call = NoCall
    /\ pc = "call"
    /\ history = <<>>
    /\ stdout = <<>>
    /\ stderr = <<>>
    /\ log = <<>>
    /\ crashed = FALSE

ProcessLine ==
    /\ pc = "call"
    /\ call' = process_line(line, variables, overflowChecks)
    /\ pc' = "returned"
    /\ UNCHANGED <<overflowChecks, history, stdout, stderr, log, crashed, line,
                   variables>>

NextLine == ProcessLine

SpecLine == InitLine /\ [][NextLine]_vars

Returned == pc = "returned"

-----------------------------------------------------------------------------
(* Vocabulary of the properties, stated on tokens rather than by the parser *)

IsDigits(s) == s # <<>> /\ \A i \in 1..Len(s) : IsDigit(s[i])

RECURSIVE DecimalValue(_)
DecimalValue(s) ==
    IF s = <<>> THEN 0
    ELSE DecimalValue(SubSeq(s, 1, Len(s) - 1)) * 10 + DigitVal(s[Len(s)])

Unsigned(s) == IF s # <<>> /\ s[1] \in {"+", "-"} THEN Tail(s) ELSE s

\* the token reads as an integer of isize: optional sign, digits, in range
IntegerValue(t) ==
    IF t[1] = "-" THEN -DecimalValue(Unsigned(t)) ELSE DecimalValue(Unsigned(t))
IsInteger(t) == IsDigits(Unsigned(t)) /\ InIsize(IntegerValue(t))

\* the text after '$' reads as a non-negative index of usize
IsIndex(s) == s # <<>> /\ s[1] # "-" /\ IsDigits(Unsigned(s))
                /\ DecimalValue(Unsigned(s)) <= MaxUsize
IsVariableTok(t) == t[1] = "$" /\ IsIndex(Tail(t))

OperatorName(t) ==
    CASE t = TokDiv -> "Division" [] t = TokMinus -> "Minus"
      [] t = TokMul -> "Multiplication" [] t = TokPlus -> "Plus"
      [] t = TokAbs -> "Abs" [] t \in {TokFact, TokBang} -> "Factorial"
      [] t = TokNeg -> "Negative" [] t = TokPred -> "Predecessor"
      [] t = TokSgn -> "Signum" [] t = TokSucc -> "Successor"

IsOperatorTok(t) == t \in BinaryTokens \cup UnaryTokens
ArityError(t) ==
    IF t \in BinaryTokens THEN Err("BinaryArity", t) ELSE Err("UnaryArity", t)

Arity(t) == IF t \in BinaryTokens THEN 2 ELSE IF t \in UnaryTokens THEN 1 ELSE 0
ValidTok(t) == IsOperatorTok(t) \/ IsVariableTok(t) \/ (t[1] # "$" /\ IsInteger(t))

\* expressions still owed after the first k tokens of a prefix expression
RECURSIVE Need(_, _)
Need(toks, k) == IF k = 0 THEN 1 ELSE Need(toks, k - 1) - 1 + Arity(toks[k])

\* the first k tokens are one complete prefix expression, and no fewer are
IsCompletePrefix(toks, k) ==
    /\ k \in 1..Len(toks)
    /\ Need(toks, k) = 0
    /\ \A j \in 1..(k - 1) : Need(toks, j) > 0
    /\ \A j \in 1..k : ValidTok(toks[j])

\* node labels in pre-order: operator, left sub-tree, right sub-tree
RECURSIVE Preorder(_)
Preorder(v) ==
    CASE v.type = "Int" -> << <<"Int", Fmt(v.int)>> >>
      [] v.type = "Variable" -> << <<"Variable", FmtNat(v.idx)>> >>
      [] v.type = "UnaryOperation" ->
            << <<"Operator", <<v.operator>> >> >> \o Preorder(v.arg)
      [] v.type = "BinaryOperation" ->
            << <<"Operator", <<v.operator>> >> >> \o Preorder(v.left)
                \o Preorder(v.right)

TokenLabel(t) ==
    IF IsOperatorTok(t) THEN <<"Operator", <<OperatorName(t)>> >>
    ELSE IF t[1] = "$" THEN <<"Variable", FmtNat(DecimalValue(Unsigned(Tail(t))))>>
    ELSE <<"Int", Fmt(IntegerValue(t))>>

\* integers written in the enumerated lines
LitInts == {MinInt, -1, 0, 1, 2, 3, 4, 5, 6, 8, 16, MaxInt}

\* q is a / b rounded toward zero
IsTruncatedQuotient(q, a, b) ==
    LET r == a - q * b
    IN  Abs(r) < Abs(b) /\ (r = 0 \/ (r > 0) = (a > 0))

\* 1 * 2 * ... * n, not computed past the first product above MaxUsize
RECURSIVE ProductFrom(_, _, _)
ProductFrom(k, n, acc) ==
    IF k > n \/ acc > MaxUsize THEN acc ELSE ProductFrom(k + 1, n, k * acc)
Product(n) == ProductFrom(1, n, 1)

\* the operand of the operator at pos whose parse failed (the first of them)
FailedOperand(toks, pos) ==
    LET l == parse_value(toks, pos + 1)
    IN  IF toks[pos + 1] \in UnaryTokens \/ IsErr(l.res) THEN pos + 1 ELSE l.pos

\* the innermost operator, from the one at pos down, with a failed operand
RECURSIVE InnermostFailing(_, _)
InnermostFailing(toks, pos) ==
    LET s == FailedOperand(toks, pos)
    IN  IF s < Len(toks) /\ IsOperatorTok(toks[s + 1])
        THEN InnermostFailing(toks, s)
        ELSE toks[pos + 1]

-----------------------------------------------------------------------------
(* Properties *)

LinePlus32 == <<TokPlus, Fmt(3), Fmt(2)>>
LineMul25 == <<TokMul, Fmt(2), Fmt(5)>>
LineDivVars == <<TokDiv, VarTok(1), VarTok(0)>>

\* C1: the history is exactly the results of the lines that succeeded, in
\* input order: a successful line appends its result as the last element, a
\* failed line leaves the history as it was, nothing is modified or removed;
\* "+ 3 2", "* 2 5", "/ $1 $0" give [5], [5,10], [5,10,2].
C1_HistoryIsOkResults ==
    /\ history = (IF log = <<>> THEN <<>> ELSE log[Len(log)].after)
    /\ \A i \in 1..Len(log) :
          /\ log[i].before = (IF i = 1 THEN <<>> ELSE log[i - 1].after)
          /\ log[i].after =
                (IF IsOk(log[i].outcome)
                 THEN Append(log[i].before, log[i].outcome.val)
                 ELSE log[i].before)
    /\ (Len(log) >= 1 /\ log[1].line = LinePlus32) => log[1].after = <<5>>
    /\ (Len(log) >= 2 /\ log[1].line = LinePlus32 /\ log[2].line = LineMul25)
          => log[2].after = <<5, 10>>
    /\ (Len(log) >= 3 /\ log[1].line = LinePlus32 /\ log[2].line = LineMul25
          /\ log[3].line = LineDivVars) => log[3].after = <<5, 10, 2>>

C1_Witness ==
    /\ Len(log) = 3
    /\ log[1].line = LinePlus32 /\ IsErr(log[2].outcome)
    /\ log[3].line = LineMul25
    /\ history = <<5, 10>>

\* C2: the session never crashes: every line the loop reads ends with a
\* result or with a reported error, also when its arithmetic leaves isize.
C2_NeverCrashes ==
    /\ ~crashed
    /\ \A i \in 1..Len(log) : log[i].outcome.kind \in {"Ok", "Err"}

\* C3: "/ a b" returns a / b truncated toward zero for every b # 0, and fails
\* with the division-by-zero error for b = 0.
C3_DivisionTruncates ==
    Returned =>
        \A a, b \in LitInts :
            line = <<TokDiv, Fmt(a), Fmt(b)>> =>
                IF b = 0 THEN call.outcome = Err("DivisionByZero", NoTok)
                ELSE /\ IsOk(call.outcome)
                     /\ IsTruncatedQuotient(call.outcome.val, a, b)

VarIndexes == 0..9

\* C4: "$i" alone yields history[i] for i < n and the invalid-variable-index
\* error naming i for i >= n; a line with a reference to $k, k >= n, read when
\* the history has n entries yields no result and appends nothing.
C4_VariableSeesEarlierResults ==
    \A i \in 1..Len(log) :
        LET e == log[i]
            n == Len(e.before)
        IN  /\ \A k \in VarIndexes :
                  e.line = <<VarTok(k)>> =>
                      e.outcome = (IF k < n THEN Ok(e.before[k + 1])
                                   ELSE Err("InvalidVariableIndex", FmtNat(k)))
            /\ (\E j \in 1..Len(e.line) :
                   \E k \in VarIndexes : k >= n /\ e.line[j] = VarTok(k))
                  => ~IsOk(e.outcome) /\ e.after = e.before

\* the same line fails, and later succeeds once the history has grown
C4_Witness ==
    \E i, j \in 1..Len(log) :
        /\ i < j
        /\ log[i].line = <<VarTok(0)>> /\ log[j].line = <<VarTok(0)>>
        /\ log[i].outcome = Err("InvalidVariableIndex", FmtNat(0))
        /\ IsOk(log[j].outcome) /\ log[j].outcome.val = log[j].before[1]

NestedFailure ==
    /\ Returned /\ line # <<>> /\ IsOperatorTok(line[1])
    /\ IsErr(call.parsed)

\* C5 as claimed: a failed parse of an operator expression returns the arity
\* error of the innermost operator one of whose operands failed to parse.
C5_NearestEnclosingOperator ==
    NestedFailure => call.parsed = ArityError(InnermostFailing(line, 0))

\* C5 as amended: a failed parse of an operator expression returns the arity
\* error of the outermost operator, the token the call itself read, whatever
\* the depth at which an operand failed; every inner error is discarded.
C5_OutermostOperator ==
    NestedFailure => call.parsed = ArityError(line[1])

C5_Witness ==
    /\ NestedFailure
    /\ InnermostFailing(line, 0) # line[1]
    /\ call.parsed = ArityError(line[1])

\* C6: a successful parse that leaves a token returns the trailing-input
\* error naming the first leftover token without evaluating, whatever the
\* evaluation would give; evaluation happens only when the whole line is one
\* expression.
C6_TrailingInput ==
    Returned =>
        /\ \A k \in 1..(Len(line) - 1) :
              IsCompletePrefix(line, k) =>
                  /\ call.outcome = Err("TrailingInput", line[k + 1])
                  /\ ~call.evaluated
        /\ call.evaluated => IsCompletePrefix(line, Len(line))

\* a leftover token is reported although evaluating the tree would fail
C6_Witness ==
    /\ Returned /\ IsOk(call.parsed) /\ call.consumed < Len(line)
    /\ IsErr(evaluate_value(call.parsed.val, variables, overflowChecks))
    /\ call.outcome = Err("TrailingInput", line[call.consumed + 1])
    /\ ~call.evaluated

\* C7: factorial of x returns 1 * 2 * ... * x for every x > 0 and fails with
\* the non-positive-argument error for every x <= 0.
C7_FactorialIsProduct ==
    Returned =>
        \A x \in LitInts :
            line \in {<<TokFact, Fmt(x)>>, <<TokBang, Fmt(x)>>} =>
                IF x > 0 THEN /\ IsOk(call.outcome)
                              /\ call.outcome.val = Product(x)
                ELSE call.outcome = Err("FactorialArgument", NoTok)

\* C8: the first token decides the outcome by the first rule that matches:
\* no token, '$' prefix, integer, binary operator, unary operator, other.
C8_ClassificationOrder ==
    Returned =>
        LET p == call.parsed
        IN  IF line = <<>> THEN p = Err("EndOfInput", NoTok)
            ELSE LET t == line[1]
                 IN  IF t[1] = "$"
                     THEN IF IsIndex(Tail(t))
                          THEN p = Ok(Variable(DecimalValue(Unsigned(Tail(t)))))
                          ELSE p = Err("InvalidVariableName", t)
                     ELSE IF IsInteger(t) THEN p = Ok(IntLit(IntegerValue(t)))
                     ELSE IF t \in BinaryTokens
                     THEN IF IsOk(p)
                          THEN /\ p.val.type = "BinaryOperation"
                               /\ p.val.operator = OperatorName(t)
                          ELSE p = Err("BinaryArity", t)
                     ELSE IF t \in UnaryTokens
                     THEN IF IsOk(p)
                          THEN /\ p.val.type = "UnaryOperation"
                               /\ p.val.operator = OperatorName(t)
                          ELSE p = Err("UnaryArity", t)
                     ELSE p = Err("UnexpectedInput", t)

\* "-" is the operator and "-1" a literal in the same line
C8_Witness ==
    /\ Returned
    /\ line = <<TokMinus, Fmt(-1), Fmt(1)>>
    /\ call.parsed = Ok(BinaryOperation("Minus", IntLit(-1), IntLit(1)))

LineNested ==
    <<TokPlus, Fmt(3), TokMul, Fmt(8), TokDiv, Fmt(2), Fmt(3)>>

\* C9: a successful parse consumes exactly the shortest prefix that is one
\* complete prefix expression, leaves the rest, and the pre-order listing of
\* its tree is the consumed tokens in order; such a prefix always parses.
C9_TreeIsTokenOrder ==
    Returned =>
        /\ IsOk(call.parsed) =>
              /\ IsCompletePrefix(line, call.consumed)
              /\ Preorder(call.parsed.val)
                    = [j \in 1..call.consumed |-> TokenLabel(line[j])]
        /\ (\E k \in 1..Len(line) : IsCompletePrefix(line, k))
              => IsOk(call.parsed)
        /\ line = LineNested =>
              call.parsed = Ok(BinaryOperation("Plus", IntLit(3),
                                 BinaryOperation("Multiplication", IntLit(8),
                                   BinaryOperation("Division", IntLit(2),
                                                   IntLit(3)))))
        /\ line = <<TokMinus, VarTok(0), VarTok(1)>> =>
              call.parsed = Ok(BinaryOperation("Minus", Variable(0), Variable(1)))

C9_Witness ==
    /\ Returned /\ line = LineNested /\ IsOk(call.parsed)
    /\ call.consumed = Len(line)
    /\ call.parsed.val.right.right.operator = "Division"

\* C10: a binary operation returns its left operand's error when the left
\* operand fails, the right operand's error when only the right one fails,
\* and applies the operator, division by zero included, only when both
\* operands evaluated.
C10_LeftErrorWins ==
    (Returned /\ call.evaluated /\ call.parsed.val.type = "BinaryOperation") =>
        LET l == evaluate_value(call.parsed.val.left, variables, overflowChecks)
            r == evaluate_value(call.parsed.val.right, variables, overflowChecks)
        IN  /\ IsErr(l) => call.outcome = l
            /\ (IsOk(l) /\ IsErr(r)) => call.outcome = r
            /\ call.outcome = Err("DivisionByZero", NoTok) =>
                  \/ l = call.outcome
                  \/ IsOk(l) /\ r = call.outcome
                  \/ IsOk(l) /\ IsOk(r) /\ r.val = 0

====
